---- MODULE Spec2Model ----
(***************************************************************************)
(* A model of the screenshoter command line tool: one run of              *)
(* captureScreenshots (src/src/index.ts) and of its class-based variant   *)
(* ScreenshotCapture.start (src/unnamed/part_000).  Strings are sequences *)
(* of one-character strings, so that prefix tests, token construction and *)
(* filename derivation are computed as the code computes them.            *)
(***************************************************************************)
EXTENDS Integers, Sequences, FiniteSets, TLC

VARIABLES
  impl,         \* which entry point runs: "index" or "classes"
  opts,         \* the parsed command line options and the config file they name
  pc,           \* the await point the run is suspended at
  browser,      \* "none" | "open" | "closed"
  closes,       \* number of browser.close() calls issued
  ctxOpened,    \* number of browser contexts created so far
  ctxClosed,    \* number of context.close() calls that completed
  di,           \* index into the device list (for .. of deviceTypes)
  selectors,    \* the selector list of the current loop
  si,           \* index into selectors (for .. of selectors)
  safeSelector, \* the locator returned by the last stabilization
  attrs,        \* data-screenshot attribute of every element of the live page
  scrollY,      \* window.pageYOffset of the live page, in half pixels
  now,          \* source of the (Date.now(), Math.random()) pairs
  attempts,     \* history: <<selector, device>> of every processSelector entered
  results,      \* history: outcome of every processSelector finished, with
                \* whether its selector matched an element of the page
  files,        \* filenames written into the output directory
  thrown,       \* the error propagating out of the device loop ("" for none)
  reported,     \* top-level error reports, in order
  faults,       \* number of external failures injected so far
  lastScroll,   \* history: the last scroll the centering heuristic issued
  lateOps,      \* history: context/page operations issued after browser.close()
  passes,       \* history: per device pass, the list it started from and resolved
  fnArgs,       \* the arguments of a call of generateFilename made on its own
  fnResult,     \* what that call returned (the empty string before it returns)
  exitCode,     \* exit status of the process (-1 while it runs)
  configErrors  \* number of "Error reading config file" lines logged

vars == <<impl, opts, pc, browser, closes, ctxOpened, ctxClosed, di, selectors, si,
          safeSelector, attrs, scrollY, now, attempts, results, files, thrown,
          reported, faults, lastScroll, lateOps, passes, fnArgs, fnResult,
          exitCode, configErrors>>

-----------------------------------------------------------------------------
(* Bounds of the model *)

\* number of immediate children of the parent container of the modelled page
NKids == 2
\* number of external failures (rejected promises, thrown fs errors) in one run
MaxFaults == 1
\* length of the selector strings generateFilename is applied to on its own
MaxLen == 3

-----------------------------------------------------------------------------
(* Program constants *)

DesktopHeight == 1095
MobileHeight == 932
Tolerance == 50

ViewportHeight(device) == IF device = "desktop" THEN DesktopHeight ELSE MobileHeight

-----------------------------------------------------------------------------
(* Strings *)

Max(a, b) == IF a >= b THEN a ELSE b
Min(a, b) == IF a <= b THEN a ELSE b
Abs(a) == IF a < 0 THEN 0 - a ELSE a

StartsWith(s, p) == Len(s) >= Len(p) /\ SubSeq(s, 1, Len(p)) = p
EndsWith(s, p) == Len(s) >= Len(p) /\ SubSeq(s, Len(s) - Len(p) + 1, Len(s)) = p

DigitChar(d) == <<"0", "1", "2", "3", "4", "5", "6", "7", "8", "9">>[d + 1]

RECURSIVE ToStr(_)
ToStr(n) == IF n < 10 THEN <<DigitChar(n)>> ELSE ToStr(n \div 10) \o <<DigitChar(n % 10)>>

\* "[data-screenshot"
DataPrefix == <<"[", "d", "a", "t", "a", "-", "s", "c", "r", "e", "e", "n", "s", "h", "o", "t">>
\* "screenshot-"
ScreenshotDash == <<"s", "c", "r", "e", "e", "n", "s", "h", "o", "t", "-">>

\* `[data-screenshot="${token}"]`
Locator(token) == DataPrefix \o <<"=", "\"">> \o token \o <<"\"", "]">>

\* `screenshot-target-${index}`
TargetToken(index) == ScreenshotDash \o <<"t", "a", "r", "g", "e", "t", "-">> \o ToStr(index)

\* `screenshot-${Date.now()}-${Math.random().toString(36).slice(2)}`: the pair of
\* clock reading and random suffix is modelled as never repeating within a run
SafeId(n) == ScreenshotDash \o ToStr(n) \o <<"-">> \o <<"r">> \o ToStr(n)

NoAttr == <<>>

-----------------------------------------------------------------------------
(* The page the URL serves: a container #p with NKids children, one       *)
(* grandchild inside the first child, and one section after the container *)

NElems == NKids + 3
Elems == 1 .. NElems
IsContainer(e) == e = 1
Grandchild == NKids + 2
Footer == NKids + 3

\* 0 stands for an ancestor outside the modelled elements (body)
ParentOf(e) ==
  IF IsContainer(e) \/ e = Footer THEN 0
  ELSE IF e = Grandchild THEN 2
  ELSE 1

IdOf(e) ==
  IF IsContainer(e) THEN <<"p">>
  ELSE IF e = Footer THEN <<"a">>
  ELSE <<>>

ClassesOf(e) ==
  IF e = 2 /\ NKids >= 1 THEN {<<"a">>, <<"p", "r", "e", "s", "e", "n", "t">>}
  ELSE IF e = Grandchild THEN {<<"b">>}
  ELSE IF e = Footer THEN {<<"b">>}
  ELSE {}

KidHeight == 800

\* the section after the container is as tall as puts its centre, with the page
\* scrolled to the bottom on desktop, exactly the tolerance below the centre of
\* the viewport
FooterHeight == DesktopHeight - 2 * Tolerance

\* document offset of the element's top edge, in pixels
DocTop(e) ==
  IF IsContainer(e) THEN 0
  ELSE IF e = Footer THEN NKids * KidHeight
  ELSE IF e = Grandchild THEN 100
  ELSE (e - 2) * KidHeight

ElemHeight(e) ==
  IF IsContainer(e) THEN NKids * KidHeight
  ELSE IF e = Footer THEN FooterHeight
  ELSE IF e = Grandchild THEN 100
  ELSE KidHeight

DocHeight == NKids * KidHeight + FooterHeight

\* element.matches(sel) for the selector shapes the model draws
Matches(e, sel, at) ==
  IF sel = <<>> THEN FALSE
  ELSE IF Head(sel) = "." THEN Tail(sel) \in ClassesOf(e)
  ELSE IF Head(sel) = "#" THEN Tail(sel) = IdOf(e)
  ELSE IF StartsWith(sel, DataPrefix \o <<"=", "\"">>) /\ EndsWith(sel, <<"\"", "]">>)
    THEN at[e] # NoAttr /\ Locator(at[e]) = sel
  ELSE FALSE

MatchSet(sel, at) == {e \in Elems : Matches(e, sel, at)}

\* document.querySelector(sel): the first match in document order, 0 for null
QuerySelector(sel, at) ==
  IF MatchSet(sel, at) = {} THEN 0
  ELSE CHOOSE e \in MatchSet(sel, at) : \A f \in MatchSet(sel, at) : e <= f

\* a variant that takes every descendant, two levels deep
Children_descendants(p) ==
  SelectSeq([e \in Elems |-> e],
            LAMBDA e : ParentOf(e) = p \/ (ParentOf(e) # 0 /\ ParentOf(ParentOf(e)) = p))

\* Array.from(parent.children), in document order
Children(p) == SelectSeq([e \in Elems |-> e], LAMBDA e : ParentOf(e) = p)

-----------------------------------------------------------------------------
(* Filename derivation *)

LowerChars == <<"a", "b", "c", "d", "e", "f", "g", "h", "i", "j", "k", "l", "m",
                "n", "o", "p", "q", "r", "s", "t", "u", "v", "w", "x", "y", "z">>
UpperChars == <<"A", "B", "C", "D", "E", "F", "G", "H", "I", "J", "K", "L", "M",
                "N", "O", "P", "Q", "R", "S", "T", "U", "V", "W", "X", "Y", "Z">>
DigitChars == {DigitChar(d) : d \in 0 .. 9}

Range(f) == {f[i] : i \in DOMAIN f}
AlnumChars == Range(LowerChars) \cup Range(UpperChars) \cup DigitChars
IsAlnum(c) == c \in AlnumChars

\* the lower-case letter of every upper-case letter
LowerOf == [c \in Range(UpperChars) |->
              LowerChars[CHOOSE i \in DOMAIN UpperChars : UpperChars[i] = c]]

ToLowerChar(c) == IF c \in DOMAIN LowerOf THEN LowerOf[c] ELSE c

\* a string with every character paired with its position
Indexed(s) == [i \in DOMAIN s |-> <<i, s[i]>>]
Unindexed(ps) == [i \in DOMAIN ps |-> ps[i][2]]

\* .replace(/[#.]/g, "")
StripHashDot(s) == SelectSeq(s, LAMBDA c : c \notin {"#", "."})

\* .replace(/[^a-z0-9]/gi, "_")
ReplaceSpecial(s) == [i \in DOMAIN s |-> IF IsAlnum(s[i]) THEN s[i] ELSE "_"]

\* .replace(/_+/g, "_"): of every run of underscores the first one stays
CollapseUnderscores(s) ==
  Unindexed(SelectSeq(Indexed(s),
                      LAMBDA p : ~(p[2] = "_" /\ p[1] > 1 /\ s[p[1] - 1] = "_")))

\* a variant that strips the leading underscore only
TrimUnderscores_leadingOnly(s) == IF s # <<>> /\ Head(s) = "_" THEN Tail(s) ELSE s

\* .replace(/^_|_$/g, "")
TrimUnderscores(s) ==
  LET t == IF s # <<>> /\ Head(s) = "_" THEN Tail(s) ELSE s
  IN IF t # <<>> /\ t[Len(t)] = "_" THEN SubSeq(t, 1, Len(t) - 1) ELSE t

\* .toLowerCase()
ToLowerCase(s) == [i \in DOMAIN s |-> ToLowerChar(s[i])]

DeviceChars(device) ==
  IF device = "desktop" THEN <<"d", "e", "s", "k", "t", "o", "p">>
  ELSE <<"m", "o", "b", "i", "l", "e">>

\* the chain of replace calls; the result of every call is bound once, as the
\* chained method calls compute it
cleanSelector(selector) ==
  CHOOSE e \in
    { ToLowerCase(d) : d \in
      { TrimUnderscores(c) : c \in
        { CollapseUnderscores(b) : b \in
          { ReplaceSpecial(a) : a \in
            { StripHashDot(sel) : sel \in {selector} } } } } } : TRUE

\* `${cleanSelector}__${device}.png`
generateFilename(selector, device) ==
  cleanSelector(selector) \o <<"_", "_">> \o DeviceChars(device) \o <<".", "p", "n", "g">>

-----------------------------------------------------------------------------
(* Options, selector source and resolution *)

SelA == <<".", "a">>
SelB == <<".", "b">>
SelIdA == <<"#", "a">>
SelMissing == <<".", "m", "i", "s", "s", "i", "n", "g">>
SelPresent == <<".", "p", "r", "e", "s", "e", "n", "t">>
SelParent == <<"#", "p">>
SelNoParent == <<"#", "n", "o", "p", "e">>

\* -s/--selectors values the model draws (an absent option is the empty list)
SelectorLists ==
  { <<>>, <<SelA, SelB>>, <<SelMissing, SelPresent>>, <<SelA, SelA>>, <<SelA, SelIdA>> }

NoConfig == [kind |-> "none", selectors |-> <<>>]

\* -c/--config: the file is unreadable or not JSON, has no selectors field, or
\* holds a selectors array
ConfigFiles ==
  { [kind |-> "unreadable", selectors |-> <<>>],
    [kind |-> "nofield", selectors |-> <<>>],
    [kind |-> "ok", selectors |-> <<SelB, SelB>>] }

\* -p/--parent-selector values (the empty string is the absent option)
ParentSelectors == { <<>>, SelParent, SelNoParent }

Options ==
  { o \in [ selectors : SelectorLists,
            config : {NoConfig} \cup ConfigFiles,
            parentSelector : ParentSelectors,
            device : {"desktop", "mobile", "both"},
            animationTrigger : BOOLEAN ] :
      o.config # NoConfig => o.selectors \in {<<>>, <<SelA, SelB>>} }

\* a variant that runs the mobile pass first
getDeviceTypes_mobileFirst(o) ==
  IF o.device = "both" THEN <<"mobile", "desktop">> ELSE <<o.device>>

getDeviceTypes(o) ==
  IF o.device = "both" THEN <<"desktop", "mobile">> ELSE <<o.device>>

\* fs.readFileSync or JSON.parse throws: the catch logs the error
ConfigReadFails(o) == o.config.kind = "unreadable"

\* a variant that falls back to the selectors of the command line when the
\* config gives none
loadSelectorsFromConfig_fallback(o) ==
  IF o.config.kind = "ok" THEN o.config.selectors ELSE o.selectors

\* getSelectors(options) of index.ts, loadSelectorsFromConfig() of the class variant
loadSelectorsFromConfig(o) ==
  IF o.config.kind # "none"
    THEN IF o.config.kind = "ok" THEN o.config.selectors ELSE <<>>
    ELSE o.selectors

\* Array.from(new Set(list)): first occurrences, in insertion order
UniqueSelectors(list) ==
  Unindexed(SelectSeq(Indexed(list),
                      LAMBDA p : \A j \in 1 .. (p[1] - 1) : list[j] # p[2]))

\* a variant that expands the first element of the page when the parent selector
\* names none
ChildSelectors_fallback(parentSelector, at) ==
  LET parent == QuerySelector(parentSelector, at)
      kids == IF parent = 0 THEN Children(1) ELSE Children(parent)
  IN [i \in DOMAIN kids |-> Locator(TargetToken(i - 1))]

\* the page.evaluate callback of child expansion: the locators it returns
ChildSelectors(parentSelector, at) ==
  LET parent == QuerySelector(parentSelector, at)
      kids == IF parent = 0 THEN <<>> ELSE Children(parent)
  IN [i \in DOMAIN kids |-> Locator(TargetToken(i - 1))]

\* the page.evaluate callback of child expansion: the attributes it leaves
ChildAttrs(parentSelector, at) ==
  LET parent == QuerySelector(parentSelector, at)
      kids == IF parent = 0 THEN <<>> ELSE Children(parent)
  IN [e \in Elems |->
        IF \E i \in DOMAIN kids : kids[i] = e
          THEN TargetToken((CHOOSE i \in DOMAIN kids : kids[i] = e) - 1)
          ELSE at[e]]

\* a variant in which the child locators replace the base list
ResolvedSelectors_childrenOnly(base, o, at) ==
  IF o.parentSelector # <<>>
    THEN UniqueSelectors(ChildSelectors(o.parentSelector, at))
    ELSE base

\* the selector list a device pass processes, from the list it starts with
ResolvedSelectors(base, o, at) ==
  IF o.parentSelector # <<>>
    THEN UniqueSelectors(base \o ChildSelectors(o.parentSelector, at))
    ELSE base

-----------------------------------------------------------------------------
(* Centering heuristic, in half pixels *)

MaxScroll(device) == 2 * Max(0, DocHeight - ViewportHeight(device))
ClampScroll(y, device) == Min(Max(0, y), MaxScroll(device))

\* rect.top of getBoundingClientRect()
RectTop(e, y) == 2 * DocTop(e) - y

\* a variant without the clamp at 0
TargetScrollY_unclamped(e, y, device) ==
  y + RectTop(e, y) - (ViewportHeight(device) - ElemHeight(e))

\* Math.max(0, window.pageYOffset + rect.top - (viewportHeight - elementHeight) / 2)
TargetScrollY(e, y, device) ==
  Max(0, y + RectTop(e, y) - (ViewportHeight(device) - ElemHeight(e)))

\* elementCenter - viewportCenter
Adjustment(e, y, device) ==
  (RectTop(e, y) + ElemHeight(e)) - ViewportHeight(device)

\* a variant whose tolerance test is offset >= 50
NeedsAdjustment_atLeast(e, y, device) == Abs(Adjustment(e, y, device)) >= 2 * Tolerance

\* offset > 50
NeedsAdjustment(e, y, device) == Abs(Adjustment(e, y, device)) > 2 * Tolerance

\* where a smooth scroll stands when the 500 ms settle delay ends: at its
\* destination, or still half way
SmoothLandings(from, to) == {to, (from + to) \div 2}

NoScroll == [phase |-> "none", top |-> 0]

-----------------------------------------------------------------------------
(* The run *)

Device == getDeviceTypes(opts)[di]
Selector == selectors[si]
BlankPage == [e \in Elems |-> NoAttr]

\* no call of generateFilename on its own is made
NoCall == [selector |-> <<>>, device |-> "desktop"]

\* the state of the run when the program starts
InitRun ==
  /\ impl \in {"index", "classes"}
  /\ opts \in Options
  /\ pc = "launch"
  /\ browser = "none"
  /\ closes = 0
  /\ ctxOpened = 0
  /\ ctxClosed = 0
  /\ di = 1
  /\ selectors = <<>>
  /\ si = 1
  /\ safeSelector = <<>>
  /\ attrs = BlankPage
  /\ scrollY = 0
  /\ now = 1
  /\ attempts = <<>>
  /\ results = <<>>
  /\ files = {}
  /\ thrown = ""
  /\ reported = <<>>
  /\ faults = 0
  /\ lastScroll = NoScroll
  /\ lateOps = 0
  /\ passes = <<>>
  /\ exitCode = -1
  /\ configErrors = 0

Init ==
  /\ InitRun
  /\ fnArgs = NoCall
  /\ fnResult = <<>>

\* an external call rejects or throws
Fault == faults < MaxFaults /\ faults' = faults + 1
NoFault == UNCHANGED faults

\* a context or page operation is issued: count it when the engine is closed
EngineOp == lateOps' = IF browser = "closed" THEN lateOps + 1 ELSE lateOps

\* a variant that isolates a setup failure like a selector failure: report it
\* and go on with the next device
Rethrow_continue(op) ==
  /\ reported' = Append(reported, op)
  /\ thrown' = ""
  /\ di' = di + 1
  /\ pc' = IF di < Len(getDeviceTypes(opts)) THEN "newContext" ELSE "finally"
  /\ UNCHANGED <<browser, closes, ctxOpened, ctxClosed, selectors, si,
                 safeSelector, attrs, scrollY, now, attempts, results, files,
                 lastScroll, passes>>

\* the catch of the outer try: control leaves the device loop
Rethrow(op) ==
  /\ pc' = "catch"
  /\ thrown' = op
  /\ UNCHANGED <<browser, closes, ctxOpened, ctxClosed, di, selectors, si,
                 safeSelector, attrs, scrollY, now, attempts, results, files,
                 reported, lastScroll, passes>>

\* for (const selector of selectors): the next iteration, or the end of the loop
NextSelector ==
  /\ si' = si + 1
  /\ pc' = IF si < Len(selectors) THEN "stabilize" ELSE "close"
  /\ safeSelector' = <<>>
  /\ lastScroll' = NoScroll

\* a variant without the inner try/catch: the error leaves the selector loop
SelectorCatch_rethrow(reason) ==
  /\ pc' = "catch"
  /\ thrown' = reason
  /\ UNCHANGED <<browser, closes, ctxOpened, ctxClosed, di, selectors, si,
                 safeSelector, attrs, scrollY, now, results, files, reported,
                 lastScroll, passes>>

\* the catch inside the selector loop: log, then continue with the next selector
SelectorCatch(reason) ==
  /\ results' = Append(results, [selector |-> Selector, device |-> Device,
                                 outcome |-> "Failed", reason |-> reason,
                                 file |-> <<>>,
                                 found |-> QuerySelector(Selector, attrs) # 0])
  /\ NextSelector
  /\ UNCHANGED <<browser, closes, ctxOpened, ctxClosed, di, selectors, attrs,
                 scrollY, now, files, thrown, reported, passes>>

\* captureScreenshots().catch(console.error): a rejection is logged by the
\* handler and a fulfilment is ignored; neither sets process.exitCode nor calls
\* process.exit, so the process ends with status 0
ExitCode(rejected) == IF rejected THEN 0 ELSE 0

\* chromium.launch(), then the synchronous code up to the first await; when
\* launch rejects, the promise of the run rejects and the process ends
Launch ==
  /\ pc = "launch"
  /\ UNCHANGED <<fnArgs, fnResult, impl, opts, lateOps>>
  /\ \/ /\ NoFault
        /\ UNCHANGED exitCode
        /\ browser' = "open"
        /\ selectors' = IF impl = "index" THEN loadSelectorsFromConfig(opts) ELSE <<>>
        /\ configErrors' = IF impl = "index" /\ ConfigReadFails(opts)
                             THEN configErrors + 1 ELSE configErrors
        /\ pc' = "newContext"
        /\ UNCHANGED <<closes, ctxOpened, ctxClosed, di, si, safeSelector, attrs,
                       scrollY, now, attempts, results, files, thrown, reported, lastScroll,
                       passes>>
     \/ /\ Fault
        /\ pc' = "done"
        /\ thrown' = "launch"
        /\ exitCode' = ExitCode(TRUE)
        /\ UNCHANGED configErrors
        /\ UNCHANGED <<browser, closes, ctxOpened, ctxClosed, di, selectors, si,
                       safeSelector, attrs, scrollY, now, attempts, results, files,
                       reported, lastScroll, passes>>

\* browser.newContext({...})
NewContext ==
  /\ pc = "newContext"
  /\ EngineOp
  /\ UNCHANGED <<configErrors, exitCode, fnArgs, fnResult, impl, opts>>
  /\ \/ /\ NoFault
        /\ ctxOpened' = ctxOpened + 1
        /\ pc' = "newPage"
        /\ UNCHANGED <<browser, closes, ctxClosed, di, selectors, si, safeSelector,
                       attrs, scrollY, now, attempts, results, files, thrown, reported,
                       lastScroll, passes>>
     \/ Fault /\ Rethrow("newContext")

\* context.newPage()
NewPage ==
  /\ pc = "newPage"
  /\ EngineOp
  /\ UNCHANGED <<configErrors, exitCode, fnArgs, fnResult, impl, opts>>
  /\ \/ /\ NoFault
        /\ pc' = "goto"
        /\ UNCHANGED <<browser, closes, ctxOpened, ctxClosed, di, selectors, si,
                       safeSelector, attrs, scrollY, now, attempts, results, files,
                       thrown, reported, lastScroll, passes>>
     \/ Fault /\ Rethrow("newPage")

\* page.goto(url, { waitUntil })
Goto ==
  /\ pc = "goto"
  /\ EngineOp
  /\ UNCHANGED <<configErrors, exitCode, fnArgs, fnResult, impl, opts>>
  /\ \/ /\ NoFault
        /\ attrs' = BlankPage
        /\ scrollY' = 0
        /\ pc' = "resolve"
        /\ UNCHANGED <<browser, closes, ctxOpened, ctxClosed, di, selectors, si,
                       safeSelector, now, attempts, results, files, thrown, reported,
                       lastScroll, passes>>
     \/ Fault /\ Rethrow("goto")

\* the list the device pass starts its resolution from
BaseSelectors == IF impl = "index" THEN selectors ELSE loadSelectorsFromConfig(opts)

\* child expansion and de-duplication
Resolve ==
  /\ pc = "resolve"
  /\ EngineOp
  /\ UNCHANGED <<exitCode, fnArgs, fnResult, impl, opts>>
  /\ configErrors' = IF impl = "classes" /\ ConfigReadFails(opts)
                       THEN configErrors + 1 ELSE configErrors
  /\ \/ /\ NoFault
        /\ selectors' = ResolvedSelectors(BaseSelectors, opts, attrs)
        /\ attrs' = IF opts.parentSelector # <<>>
                      THEN ChildAttrs(opts.parentSelector, attrs) ELSE attrs
        /\ passes' = Append(passes, [device |-> Device, start |-> BaseSelectors,
                                     childSelectors |->
                                       IF opts.parentSelector # <<>>
                                         THEN ChildSelectors(opts.parentSelector, attrs)
                                         ELSE <<>>,
                                     resolved |-> selectors'])
        /\ pc' = "mkdir"
        /\ UNCHANGED <<browser, closes, ctxOpened, ctxClosed, di, si, safeSelector,
                       scrollY, now, attempts, results, files, thrown, reported, lastScroll>>
     \/ /\ opts.parentSelector # <<>>
        /\ Fault
        /\ Rethrow("childExpansion")

\* fs.existsSync / fs.mkdirSync, then the head of the selector loop
EnsureOutputDirectory ==
  /\ pc = "mkdir"
  /\ UNCHANGED <<configErrors, exitCode, fnArgs, fnResult, impl, opts, lateOps>>
  /\ \/ /\ NoFault
        /\ si' = 1
        /\ pc' = IF selectors = <<>> THEN "close" ELSE "stabilize"
        /\ UNCHANGED <<browser, closes, ctxOpened, ctxClosed, di, selectors,
                       safeSelector, attrs, scrollY, now, attempts, results, files,
                       thrown, reported, lastScroll, passes>>
     \/ Fault /\ Rethrow("mkdir")

\* a variant that centres whatever the flag says
AfterStabilize_always == "center"

\* where processing goes once the selector is stabilized
AfterStabilize == IF opts.animationTrigger THEN "center" ELSE "wait"

\* a variant without the test for an already stable selector
makeSelectorSafe_alwaysTag(sel, at, n) ==
  IF QuerySelector(sel, at) = 0
    THEN [found |-> FALSE, selector |-> <<>>, attrs |-> at]
    ELSE [found |-> TRUE, selector |-> Locator(SafeId(n)),
          attrs |-> [at EXCEPT ![QuerySelector(sel, at)] = SafeId(n)]]

\* a variant that returns a selector matching nothing as it is
makeSelectorSafe_lenient(sel, at, n) ==
  IF StartsWith(sel, DataPrefix) \/ QuerySelector(sel, at) = 0
    THEN [found |-> TRUE, selector |-> sel, attrs |-> at]
    ELSE [found |-> TRUE, selector |-> Locator(SafeId(n)),
          attrs |-> [at EXCEPT ![QuerySelector(sel, at)] = SafeId(n)]]

\* what the rewriter does to the selector sel on a page with attributes at, n
\* being the clock and random reading: the locator it returns and the
\* attributes it leaves, or found = FALSE when it throws "Element not found"
makeSelectorSafe(sel, at, n) ==
  IF StartsWith(sel, DataPrefix)
    THEN [found |-> TRUE, selector |-> sel, attrs |-> at]
  ELSE IF QuerySelector(sel, at) = 0
    THEN [found |-> FALSE, selector |-> <<>>, attrs |-> at]
  ELSE [found |-> TRUE, selector |-> Locator(SafeId(n)),
        attrs |-> [at EXCEPT ![QuerySelector(sel, at)] = SafeId(n)]]

\* makeSelectorSafe(selector) / the first page.evaluate of the selector loop
MakeSelectorSafe ==
  /\ pc = "stabilize"
  /\ EngineOp
  /\ UNCHANGED <<configErrors, exitCode, fnArgs, fnResult, impl, opts>>
  /\ attempts' = Append(attempts, <<Selector, Device>>)
  /\ \E safe \in {makeSelectorSafe(Selector, attrs, now)} :
     \/ /\ safe.found
        /\ NoFault
        /\ attrs' = safe.attrs
        /\ now' = IF StartsWith(Selector, DataPrefix) THEN now ELSE now + 1
        /\ safeSelector' = safe.selector
        /\ pc' = AfterStabilize
        /\ UNCHANGED <<browser, closes, ctxOpened, ctxClosed, di, selectors, si,
                       scrollY, results, files, thrown, reported, lastScroll, passes>>
     \/ /\ ~safe.found
        /\ NoFault
        /\ SelectorCatch("ElementNotFound")
     \/ /\ impl = "index" \/ ~StartsWith(Selector, DataPrefix)
        /\ Fault
        /\ SelectorCatch("Error")

\* centerElement(selector), then waitForTimeout(500)
CenterElement ==
  /\ pc = "center"
  /\ EngineOp
  /\ UNCHANGED <<configErrors, exitCode, fnArgs, fnResult, impl, opts, attempts>>
  /\ LET element == QuerySelector(safeSelector, attrs)
         target == TargetScrollY(element, scrollY, Device)
     IN
     \/ /\ NoFault
        /\ IF element # 0
             THEN /\ lastScroll' = [phase |-> "A", top |-> target]
                  /\ scrollY' \in SmoothLandings(scrollY, ClampScroll(target, Device))
             ELSE UNCHANGED <<lastScroll, scrollY>>
        /\ pc' = "adjust"
        /\ UNCHANGED <<browser, closes, ctxOpened, ctxClosed, di, selectors, si,
                       safeSelector, attrs, now, results, files, thrown, reported, passes>>
     \/ Fault /\ SelectorCatch("Error")

\* adjustPosition(selector), then waitForTimeout(200)
AdjustPosition ==
  /\ pc = "adjust"
  /\ EngineOp
  /\ UNCHANGED <<configErrors, exitCode, fnArgs, fnResult, impl, opts, attempts>>
  /\ LET element == QuerySelector(safeSelector, attrs)
         adjustment == Adjustment(element, scrollY, Device)
     IN
     \/ /\ NoFault
        /\ IF element # 0 /\ NeedsAdjustment(element, scrollY, Device)
             THEN /\ lastScroll' = [phase |-> "B", top |-> scrollY + adjustment]
                  /\ scrollY' = ClampScroll(scrollY + adjustment, Device)
             ELSE UNCHANGED <<lastScroll, scrollY>>
        /\ pc' = "wait"
        /\ UNCHANGED <<browser, closes, ctxOpened, ctxClosed, di, selectors, si,
                       safeSelector, attrs, now, results, files, thrown, reported, passes>>
     \/ Fault /\ SelectorCatch("Error")

\* page.waitForTimeout(wait)
Wait ==
  /\ pc = "wait"
  /\ EngineOp
  /\ UNCHANGED <<configErrors, exitCode, fnArgs, fnResult, impl, opts, attempts>>
  /\ \/ /\ NoFault
        /\ pc' = "screenshot"
        /\ lastScroll' = NoScroll
        /\ UNCHANGED <<browser, closes, ctxOpened, ctxClosed, di, selectors, si,
                       safeSelector, attrs, scrollY, now, results, files, thrown, reported,
                       passes>>
     \/ Fault /\ SelectorCatch("Error")

\* page.screenshot({ path, fullPage: false })
Screenshot ==
  /\ pc = "screenshot"
  /\ EngineOp
  /\ UNCHANGED <<configErrors, exitCode, fnArgs, fnResult, impl, opts, attempts>>
  /\ LET filename == generateFilename(Selector, Device) IN
     \/ /\ NoFault
        /\ files' = files \cup {filename}
        /\ results' = Append(results, [selector |-> Selector, device |-> Device,
                                       outcome |-> "Saved", reason |-> "",
                                       file |-> filename,
                                       found |-> QuerySelector(Selector, attrs) # 0])
        /\ NextSelector
        /\ UNCHANGED <<browser, closes, ctxOpened, ctxClosed, di, selectors, attrs,
                       scrollY, now, thrown, reported, passes>>
     \/ Fault /\ SelectorCatch("Error")

\* context.close(), then the next iteration of the device loop
CloseContext ==
  /\ pc = "close"
  /\ EngineOp
  /\ ctxClosed' = ctxClosed + 1
  /\ attrs' = BlankPage
  /\ scrollY' = 0
  /\ di' = di + 1
  /\ pc' = IF di < Len(getDeviceTypes(opts)) THEN "newContext" ELSE "finally"
  /\ UNCHANGED <<configErrors, exitCode, fnArgs, fnResult, impl, opts, browser, closes, ctxOpened, selectors, si,
                 safeSelector, now, attempts, results, files, thrown, reported, faults,
                 lastScroll, passes>>

\* catch (error) { console.error(...) } / handleError(error)
HandleError ==
  /\ pc = "catch"
  /\ reported' = Append(reported, thrown)
  /\ thrown' = ""
  /\ pc' = "finally"
  /\ UNCHANGED <<configErrors, exitCode, fnArgs, fnResult, impl, opts, browser, closes, ctxOpened, ctxClosed, di, selectors,
                 si, safeSelector, attrs, scrollY, now, attempts, results, files,
                 faults, lastScroll, lateOps, passes>>

\* a variant that closes the browser at the end of the try block instead of in
\* finally: after a top-level error the engine stays open
Cleanup_onlyOnSuccess ==
  /\ pc = "finally"
  /\ exitCode' = ExitCode(FALSE)
  /\ UNCHANGED configErrors
  /\ browser' = IF reported = <<>> THEN "closed" ELSE browser
  /\ closes' = IF reported = <<>> THEN closes + 1 ELSE closes
  /\ attrs' = BlankPage
  /\ scrollY' = 0
  /\ pc' = "done"
  /\ UNCHANGED <<fnArgs, fnResult, impl, opts, ctxOpened, ctxClosed, di, selectors, si, safeSelector,
                 now, attempts, results, files, thrown, reported, faults, lastScroll,
                 lateOps, passes>>

\* finally { await browser.close() } / cleanup(); the promise of the run is
\* then fulfilled and the process ends
Cleanup ==
  /\ pc = "finally"
  /\ exitCode' = ExitCode(FALSE)
  /\ UNCHANGED configErrors
  /\ browser' = "closed"
  /\ closes' = closes + 1
  /\ attrs' = BlankPage
  /\ scrollY' = 0
  /\ pc' = "done"
  /\ UNCHANGED <<fnArgs, fnResult, impl, opts, ctxOpened, ctxClosed, di, selectors, si, safeSelector,
                 now, attempts, results, files, thrown, reported, faults, lastScroll, lateOps,
                 passes>>

Next ==
  \/ Launch
  \/ NewContext
  \/ NewPage
  \/ Goto
  \/ Resolve
  \/ EnsureOutputDirectory
  \/ MakeSelectorSafe
  \/ CenterElement
  \/ AdjustPosition
  \/ Wait
  \/ Screenshot
  \/ CloseContext
  \/ HandleError
  \/ Cleanup

Spec == Init /\ [][Next]_vars

\* every await of the run settles: the run is a single flow that always
\* resumes while it has a next step
FairSpec == Spec /\ WF_vars(Next)

-----------------------------------------------------------------------------
(* generateFilename on its own: applied to every string over an alphabet   *)
(* that has a character of every class the replace calls tell apart        *)

Alphabet == {"#", ".", "-", "_", " ", "a", "Z", "7"}

Strings == UNION { [1 .. n -> Alphabet] : n \in 0 .. MaxLen }

HeroBanner == <<".", "h", "e", "r", "o", "-", "b", "a", "n", "n", "e", "r">>
Main == <<"#", "m", "a", "i", "n">>

FilenameCalls ==
  [selector : Strings \cup {HeroBanner, Main}, device : {"desktop", "mobile"}]

\* the options of a run that is not looked at
IdleOptions ==
  [selectors |-> <<>>, config |-> NoConfig, parentSelector |-> <<>>,
   device |-> "desktop", animationTrigger |-> FALSE]

FilenameInit ==
  /\ InitRun
  /\ impl = "index"
  /\ opts = IdleOptions
  /\ fnArgs \in FilenameCalls
  /\ fnResult = <<>>

\* const filename = generateFilename(selector, deviceType)
CallGenerateFilename ==
  /\ fnResult' = generateFilename(fnArgs.selector, fnArgs.device)
  /\ UNCHANGED <<configErrors, exitCode, fnArgs, impl, opts, pc, browser, closes, ctxOpened, ctxClosed, di,
                 selectors, si, safeSelector, attrs, scrollY, now, attempts, results,
                 files, thrown, reported, faults, lastScroll, lateOps, passes>>

FilenameSpec == FilenameInit /\ [][CallGenerateFilename]_vars

-----------------------------------------------------------------------------
(* Properties *)

Devices == getDeviceTypes(opts)

\* the attempts a list of selectors gives rise to in one device pass
AttemptsOf(list, device) == [i \in DOMAIN list |-> <<list[i], device>>]

\* the attempts of all device passes resolved so far, in order
RECURSIVE ExpectedAttempts(_)
ExpectedAttempts(n) ==
  IF n = 0 THEN <<>>
  ELSE ExpectedAttempts(n - 1) \o AttemptsOf(passes[n].resolved, passes[n].device)

IsPrefix(s, t) == Len(s) <= Len(t) /\ SubSeq(t, 1, Len(s)) = s

\* the errors that may leave the device loop
TopLevelErrors == {"launch", "newContext", "newPage", "goto", "childExpansion", "mkdir"}

\* C1: an error raised while stabilizing, animating, waiting or capturing for one
\* selector never leaves the selector loop: when a device pass reaches its
\* context.close() every selector of its resolved set has been attempted, in
\* order, and a run without a top-level error has closed one context per device
\* and attempted every selector of every pass.
C1_SelectorFailureIsolated ==
  /\ thrown \in {""} \cup TopLevelErrors
  /\ \A r \in Range(reported) : r \in TopLevelErrors
  /\ pc = "close" =>
       /\ Len(passes) = di
       /\ attempts = ExpectedAttempts(di)
       /\ Len(results) = Len(attempts)
  /\ (pc = "done" /\ browser = "closed" /\ reported = <<>>) =>
       /\ ctxClosed = Len(Devices)
       /\ Len(passes) = Len(Devices)
       /\ attempts = ExpectedAttempts(Len(Devices))
       /\ Len(results) = Len(attempts)

\* C1 witness: a finished run in which a selector failed, a later selector of
\* the same pass was attempted, and a later device pass captured
C1_Witness ==
  /\ pc = "done"
  /\ ctxClosed = 2
  /\ \E i, j, k \in DOMAIN results :
       /\ i < j /\ j < k
       /\ results[i].outcome = "Failed" /\ results[i].reason = "Error"
       /\ results[j].device = results[i].device
       /\ results[k].device # results[i].device
       /\ results[k].outcome = "Saved"

\* C2: once launched, the run ends with the engine closed by exactly one
\* browser.close(), never more than one is issued, and no context or page
\* operation is issued after it.
C2_EngineReleased ==
  /\ [](closes <= 1 /\ lateOps = 0)
  /\ [](browser = "closed" => closes = 1 /\ pc = "done")
  /\ (browser = "open") ~> (pc = "done" /\ browser = "closed" /\ closes = 1)

\* C2 witness: a run that had a failed selector and then a fatal setup failure
\* has ended with the engine closed
C2_Witness ==
  /\ pc = "done"
  /\ browser = "closed"
  /\ reported # <<>>
  /\ \E i \in DOMAIN results : results[i].outcome = "Failed"

SetupErrors == {"newContext", "newPage", "goto"}

\* C3: after a failure of context creation, page creation or navigation the run
\* only reports and releases: no selector of the failing pass is attempted, no
\* later pass starts (no further context, no further resolution), one top-level
\* error is reported and the finished run has closed the engine.
C3_SetupFailureAborts ==
  LET failed == thrown \in SetupErrors
                  \/ \E i \in DOMAIN reported : reported[i] \in SetupErrors
  IN failed =>
       /\ pc \in {"catch", "finally", "done"}
       /\ \A i \in DOMAIN attempts : attempts[i][2] # Devices[di]
       /\ Len(passes) = di - 1
       /\ ctxOpened <= di
       /\ pc = "catch" => reported = <<>>
       /\ pc \in {"finally", "done"} => Len(reported) = 1
       /\ pc = "done" => browser = "closed" /\ closes = 1

\* C3 witness: with both devices requested and selectors to capture, navigation
\* failed in the first pass and the run has ended
C3_Witness ==
  /\ pc = "done"
  /\ reported = <<"goto">>
  /\ opts.device = "both"
  /\ di = 1
  /\ loadSelectorsFromConfig(opts) # <<>>
  /\ attempts = <<>>
  /\ browser = "closed"

NoDuplicates(list) == \A i, j \in DOMAIN list : i # j => list[i] # list[j]

\* C4: the selector list every device pass processes holds no string twice and
\* holds every string of the base list, with or without a parent selector.
C4_ResolvedSetUnique ==
  \A i \in DOMAIN passes :
    /\ NoDuplicates(passes[i].resolved)
    /\ Range(loadSelectorsFromConfig(opts)) \subseteq Range(passes[i].resolved)

\* C5: the locator the stabilization step has returned for the selector being
\* processed matches exactly one element of the page.
C5_ReturnedLocatorMatchesOne ==
  safeSelector # <<>> => Cardinality(MatchSet(safeSelector, attrs)) = 1

\* C6: while its browsing context is open, an element that carries a
\* data-screenshot token keeps that token in every step.
C6_TokenKept ==
  [][pc \notin {"close", "finally"} =>
       \A e \in Elems : attrs[e] # NoAttr => attrs'[e] = attrs[e]]_vars

FileADesktop == <<"a", "_", "_", "d", "e", "s", "k", "t", "o", "p", ".", "p", "n", "g">>
FileBDesktop == <<"b", "_", "_", "d", "e", "s", "k", "t", "o", "p", ".", "p", "n", "g">>
FileAMobile == <<"a", "_", "_", "m", "o", "b", "i", "l", "e", ".", "p", "n", "g">>
FileBMobile == <<"b", "_", "_", "m", "o", "b", "i", "l", "e", ".", "p", "n", "g">>

\* the run of the end-to-end scenario: selectors .a .b, device both, no failure
ScenarioAB ==
  /\ opts.config = NoConfig
  /\ opts.selectors = <<SelA, SelB>>
  /\ opts.parentSelector = <<>>
  /\ opts.device = "both"
  /\ faults = 0
  /\ pc = "done"

\* C7: attempts follow the resolved sets pass by pass and selector by selector,
\* one at a time; with device both the passes are desktop then mobile over the
\* same list; selectors .a .b with device both give the four attempts
\* a-desktop, b-desktop, a-mobile, b-mobile and the four files named after them.
C7_CaptureOrder ==
  /\ IsPrefix(attempts, ExpectedAttempts(Len(passes)))
  /\ Len(results) <= Len(attempts) /\ Len(attempts) <= Len(results) + 1
  /\ \A i \in DOMAIN results :
       results[i].selector = attempts[i][1] /\ results[i].device = attempts[i][2]
  /\ opts.device = "both" =>
       \A i \in DOMAIN passes : passes[i].device = <<"desktop", "mobile">>[i]
  /\ Len(passes) = 2 => passes[1].resolved = passes[2].resolved
  /\ (pc = "done" /\ browser = "closed" /\ reported = <<>> /\ opts.device = "both") =>
       attempts = AttemptsOf(passes[1].resolved, "desktop")
                    \o AttemptsOf(passes[2].resolved, "mobile")
  /\ ScenarioAB =>
       /\ attempts = << <<SelA, "desktop">>, <<SelB, "desktop">>,
                        <<SelA, "mobile">>, <<SelB, "mobile">> >>
       /\ [i \in DOMAIN results |-> results[i].file]
            = <<FileADesktop, FileBDesktop, FileAMobile, FileBMobile>>
       /\ \A i \in DOMAIN results : results[i].outcome = "Saved"
       /\ files = {FileADesktop, FileBDesktop, FileAMobile, FileBMobile}

\* C7 witness: the end-to-end scenario has run to its end with four captures
C7_Witness == ScenarioAB /\ Len(results) = 4 /\ browser = "closed"

\* the run of the failure isolation scenario: selectors .missing .present on one
\* device, no external failure
ScenarioMissingPresent ==
  /\ opts.config = NoConfig
  /\ opts.selectors = <<SelMissing, SelPresent>>
  /\ opts.parentSelector = <<>>
  /\ opts.device # "both"
  /\ faults = 0
  /\ pc = "done"

\* C8: when a device pass reaches its context.close() every selector of its
\* resolved set has had one attempt and one outcome; a selector that matches no
\* element is Failed and writes no file, a Saved one has written its file; the
\* run over .missing .present ends with one element-not-found error and one file.
C8_OneOutcomePerSelector ==
  /\ pc = "close" =>
       /\ attempts = ExpectedAttempts(di)
       /\ Len(results) = Len(attempts)
  /\ \A i \in DOMAIN results :
       /\ results[i].outcome \in {"Saved", "Failed"}
       /\ ~results[i].found => results[i].outcome = "Failed" /\ results[i].file = <<>>
       /\ results[i].outcome = "Saved" => results[i].file \in files
  /\ ScenarioMissingPresent =>
       /\ Len(results) = 2
       /\ results[1].outcome = "Failed" /\ results[1].reason = "ElementNotFound"
       /\ results[2].outcome = "Saved"
       /\ Cardinality(files) = 1

\* C9: every device pass starts its resolution from the base list of the
\* options, whatever earlier passes resolved.
C9_PassStartsFromBase ==
  \A i \in DOMAIN passes : passes[i].start = loadSelectorsFromConfig(opts)

\* the absolute offset that puts the centre of the stabilized element at the
\* centre of the viewport, in half pixels
CentredOffset ==
  LET e == QuerySelector(safeSelector, attrs)
  IN 2 * DocTop(e) + ElemHeight(e) - ViewportHeight(Device)

\* C10 as stated: no scroll of the centering heuristic, Phase A or Phase B,
\* targets a negative absolute vertical offset.
C10_NoNegativeScroll ==
  lastScroll.phase # "none" => lastScroll.top >= 0

\* C10 as amended: the Phase A scroll-to targets the centring offset clamped at
\* 0, so never a negative one; the Phase B scroll-by targets the centring offset
\* itself, unclamped.
C10_PhaseAClamped ==
  /\ lastScroll.phase = "A" =>
       lastScroll.top >= 0 /\ lastScroll.top = Max(0, CentredOffset)
  /\ lastScroll.phase = "B" => lastScroll.top = CentredOffset

\* C10 witness: Phase A has scrolled to 0 for an element whose centring offset
\* is negative
C10_Witness ==
  /\ lastScroll.phase = "A"
  /\ lastScroll.top = 0
  /\ CentredOffset < 0

\* twice the signed difference between the vertical centre of the stabilized
\* element and the vertical centre of the viewport, at the current scroll offset
CentreDifference ==
  LET e == QuerySelector(safeSelector, attrs)
  IN (2 * DocTop(e) - scrollY) + ElemHeight(e) - ViewportHeight(Device)

\* C11: in the Phase B step, with the element present, a scroll is issued if and
\* only if the centre difference measured in that step exceeds 50 pixels in
\* absolute value; the scroll issued moves by exactly the signed difference and
\* takes effect at once; otherwise the page is not scrolled.
C11_CorrectiveScrollIffOver50 ==
  [][(pc = "adjust" /\ pc' = "wait" /\ QuerySelector(safeSelector, attrs) # 0) =>
       /\ lastScroll'.phase = "B"
            <=> (CentreDifference > 2 * Tolerance \/ CentreDifference < 0 - 2 * Tolerance)
       /\ lastScroll'.phase = "B" =>
            /\ lastScroll'.top - scrollY = CentreDifference
            /\ scrollY' = ClampScroll(scrollY + CentreDifference, Device)
       /\ lastScroll'.phase # "B" => scrollY' = scrollY /\ lastScroll' = lastScroll]_vars

\* C11 witness: Phase B has run for an element whose centre is exactly 50 pixels
\* from the centre of the viewport, and has issued no scroll
C11_Witness ==
  /\ pc = "wait"
  /\ lastScroll.phase = "A"
  /\ QuerySelector(safeSelector, attrs) # 0
  /\ Abs(CentreDifference) = 2 * Tolerance

\* the maximal runs of letters and digits of a string in which # and . are
\* skipped, in lower case, joined by single underscores
RECURSIVE JoinedRuns(_, _, _)
JoinedRuns(rest, acc, gap) ==
  IF rest = <<>> THEN acc
  ELSE IF Head(rest) \in {"#", "."} THEN JoinedRuns(Tail(rest), acc, gap)
  ELSE IF Head(rest) \in AlnumChars
    THEN JoinedRuns(Tail(rest),
                    acc \o (IF gap /\ acc # <<>> THEN <<"_">> ELSE <<>>)
                        \o <<ToLowerChar(Head(rest))>>,
                    FALSE)
  ELSE JoinedRuns(Tail(rest), acc, TRUE)

\* the part of a filename before `__<device>.png`
Stem(name, device) == SubSeq(name, 1, Len(name) - Len(DeviceChars(device)) - 6)

StemChars == Range(LowerChars) \cup DigitChars \cup {"_"}

HeroBannerMobile ==
  <<"h", "e", "r", "o", "_", "b", "a", "n", "n", "e", "r", "_", "_",
    "m", "o", "b", "i", "l", "e", ".", "p", "n", "g">>
MainDesktop ==
  <<"m", "a", "i", "n", "_", "_", "d", "e", "s", "k", "t", "o", "p", ".", "p", "n", "g">>

\* C12: what generateFilename returns is the stem its arguments determine (the
\* lower-cased runs of letters and digits of the selector without # and .,
\* joined by single underscores) followed by `__<device>.png`; the stem holds
\* only a-z, 0-9 and _, with no leading, trailing or doubled underscore; the
\* call changes nothing else; ".hero-banner"/mobile gives
\* "hero_banner__mobile.png" and "#main"/desktop gives "main__desktop.png".
C12_FilenameDerivation ==
  fnResult # <<>> =>
    LET stem == Stem(fnResult, fnArgs.device) IN
    /\ fnResult = JoinedRuns(fnArgs.selector, <<>>, FALSE)
                     \o <<"_", "_">> \o DeviceChars(fnArgs.device) \o <<".", "p", "n", "g">>
    /\ fnResult = generateFilename(fnArgs.selector, fnArgs.device)
    /\ \A i \in DOMAIN stem : stem[i] \in StemChars
    /\ stem # <<>> => stem[1] # "_" /\ stem[Len(stem)] # "_"
    /\ \A i \in 1 .. (Len(stem) - 1) : ~(stem[i] = "_" /\ stem[i + 1] = "_")
    /\ (fnArgs.selector = HeroBanner /\ fnArgs.device = "mobile") => fnResult = HeroBannerMobile
    /\ (fnArgs.selector = Main /\ fnArgs.device = "desktop") => fnResult = MainDesktop
    /\ pc = "launch" /\ files = {} /\ results = <<>>

\* C12 witness: a name was derived from a selector that has upper case, a
\* character to strip, and a separator at its end
C12_Witness ==
  /\ fnArgs.selector = <<".", "Z", "-">>
  /\ fnResult = <<"z", "_", "_", "m", "o", "b", "i", "l", "e", ".", "p", "n", "g">>

\* the element the parent selector of the options names (0 when it names none)
\* and the number of its immediate children
ParentElement == QuerySelector(opts.parentSelector, BlankPage)
ChildCount == Cardinality({e \in Elems : ParentElement # 0 /\ ParentOf(e) = ParentElement})

\* the base list of the options shares no string with the child locators
NoOverlap ==
  \A i \in DOMAIN loadSelectorsFromConfig(opts), n \in 0 .. NElems :
    loadSelectorsFromConfig(opts)[i] # Locator(TargetToken(n))

\* C13 as stated: with a parent selector that names an element and a base list
\* that shares no string with the child locators, every device pass processes
\* exactly |base| + N selectors, N the number of immediate children.
C13_ResolvedSize ==
  (opts.parentSelector # <<>> /\ ParentElement # 0 /\ NoOverlap) =>
    \A i \in DOMAIN passes :
      Len(passes[i].resolved) = Len(loadSelectorsFromConfig(opts)) + ChildCount

\* C13 as amended: the count is |base| + N when, in addition, the base list
\* holds no string twice; in general it is the number of distinct strings of
\* the base list plus N.
C13_ResolvedSizeDistinct ==
  (opts.parentSelector # <<>> /\ ParentElement # 0 /\ NoOverlap) =>
    \A i \in DOMAIN passes :
      /\ Len(passes[i].resolved)
           = Cardinality(Range(loadSelectorsFromConfig(opts))) + ChildCount
      /\ NoDuplicates(loadSelectorsFromConfig(opts)) =>
           Len(passes[i].resolved) = Len(loadSelectorsFromConfig(opts)) + ChildCount

\* C13 witness: both passes of a run with two distinct base selectors and the
\* parent #p have resolved their lists
C13_Witness ==
  /\ opts.parentSelector = SelParent
  /\ loadSelectorsFromConfig(opts) = <<SelA, SelB>>
  /\ Len(passes) = 2
  /\ Len(passes[2].resolved) = 2 + NKids

\* a parent selector is given and names no element of the page
ParentMissing == opts.parentSelector # <<>> /\ ParentElement = 0

\* C14 as stated: when the parent selector names no element, child expansion
\* raises no error and every device pass processes exactly the base list, the
\* same sequence of strings.
C14_BaseUnchanged ==
  ParentMissing =>
    /\ (thrown = "childExpansion" \/ "childExpansion" \in Range(reported)) => faults > 0
    /\ \A i \in DOMAIN passes : passes[i].resolved = loadSelectorsFromConfig(opts)

\* C14 as amended: when the parent selector names no element, child expansion
\* raises no error of its own, contributes no locator and tags no element, and
\* every device pass processes the base list with repeated strings removed
\* (first occurrences, in order): the base list itself when it has none.
C14_BaseDeduplicated ==
  ParentMissing =>
    /\ (thrown = "childExpansion" \/ "childExpansion" \in Range(reported)) => faults > 0
    /\ pc = "mkdir" => attrs = BlankPage
    /\ \A i \in DOMAIN passes :
         /\ passes[i].resolved = UniqueSelectors(loadSelectorsFromConfig(opts))
         /\ Range(passes[i].resolved) = Range(loadSelectorsFromConfig(opts))
         /\ NoDuplicates(loadSelectorsFromConfig(opts)) =>
              passes[i].resolved = loadSelectorsFromConfig(opts)

\* C14 witness: both passes of a run with base list .a .b and a parent selector
\* that names no element have resolved to the base list
C14_Witness ==
  /\ ParentMissing
  /\ Len(passes) = 2
  /\ passes[2].resolved = <<SelA, SelB>>
  /\ faults = 0

\* C15: a launched run that has ended exits with a non-zero status if and only
\* if a top-level error was reported.
C15_ExitReflectsFatal ==
  (pc = "done" /\ browser = "closed") => (exitCode # 0 <=> reported # <<>>)

\* C16: a stabilization step on a selector that starts with [data-screenshot
\* returns that selector and changes no attribute of the page; and the rewriter
\* applied to the locator the last stabilization returned would return that
\* locator again and change no attribute.
C16_RewriterIdempotent ==
  /\ [][(pc = "stabilize" /\ pc' \in {"center", "wait"} /\ StartsWith(Selector, DataPrefix))
          => (safeSelector' = Selector /\ attrs' = attrs)]_vars
  /\ [](safeSelector # <<>> =>
          /\ StartsWith(safeSelector, DataPrefix)
          /\ makeSelectorSafe(safeSelector, attrs, now)
               = [found |-> TRUE, selector |-> safeSelector, attrs |-> attrs])

\* C16 witness: the locator of a child has passed through the rewriter and came
\* back as it was, its element carrying its token
C16_Witness ==
  /\ pc \in {"center", "wait"}
  /\ StartsWith(Selector, DataPrefix)
  /\ safeSelector = Selector
  /\ QuerySelector(safeSelector, attrs) # 0

\* the selector being processed is no locator and matches no element
NotFoundCase ==
  /\ pc = "stabilize"
  /\ ~StartsWith(Selector, DataPrefix)
  /\ QuerySelector(Selector, attrs) = 0

\* C17: the stabilization step of a selector that is no locator and matches no
\* element ends that selector's processing with a failure (element not found,
\* unless the evaluate call itself was rejected), changes no attribute, scroll
\* offset or file, goes on to the next selector or to the end of the pass
\* without centering, waiting or capturing, and lets no error leave the
\* selector loop; such a failure never has a file.
C17_NotFoundIsolated ==
  /\ [][NotFoundCase =>
          /\ attrs' = attrs /\ scrollY' = scrollY /\ files' = files
          /\ safeSelector' = <<>>
          /\ thrown' = "" /\ reported' = reported
          /\ si' = si + 1
          /\ pc' = IF si < Len(selectors) THEN "stabilize" ELSE "close"
          /\ Len(results') = Len(results) + 1
          /\ results'[Len(results')].selector = Selector
          /\ results'[Len(results')].device = Device
          /\ results'[Len(results')].outcome = "Failed"
          /\ results'[Len(results')].file = <<>>
          /\ faults' = faults => results'[Len(results')].reason = "ElementNotFound"]_vars
  /\ [](\A i \in DOMAIN results :
          results[i].reason = "ElementNotFound" =>
            /\ results[i].outcome = "Failed" /\ results[i].file = <<>>
            /\ ~results[i].found
            /\ generateFilename(results[i].selector, results[i].device) \notin files)

\* C17 witness: .missing was not found, and the pass went on to capture the
\* next selector and reached its end
C17_Witness ==
  /\ pc = "close"
  /\ Len(results) = 2
  /\ results[1].selector = SelMissing /\ results[1].reason = "ElementNotFound"
  /\ results[2].outcome = "Saved"
  /\ thrown = "" /\ reported = <<>>

\* C18: the steps of a selector come in the order stabilize, centre and adjust
\* (with the animation flag only), wait, capture: a step past stabilization only
\* runs for the selector whose stabilization has returned a locator; the
\* capture is entered from a wait that elapsed, the wait from stabilization
\* (flag unset) or from the end of centering (flag set), centering from
\* stabilization with the flag set; a Saved outcome is only recorded by the
\* capture step; without the flag the page is never scrolled.
C18_StepOrder ==
  /\ [](pc \in {"center", "adjust", "wait", "screenshot"} =>
          /\ safeSelector # <<>>
          /\ Len(attempts) = Len(results) + 1
          /\ attempts[Len(attempts)] = <<Selector, Device>>)
  /\ [](~opts.animationTrigger =>
          pc \notin {"center", "adjust"} /\ lastScroll = NoScroll /\ scrollY = 0)
  /\ [][/\ pc' = "screenshot" => pc = "wait" /\ faults' = faults
        /\ pc' = "wait" => pc = (IF opts.animationTrigger THEN "adjust" ELSE "stabilize")
        /\ pc' = "adjust" => pc = "center"
        /\ pc' = "center" => pc = "stabilize" /\ opts.animationTrigger
        /\ (pc = "stabilize" /\ pc' \in {"center", "wait"}) => safeSelector' # <<>>
        /\ (Len(results') > Len(results) /\ results'[Len(results')].outcome = "Saved")
             => pc = "screenshot" /\ results'[Len(results')].selector = Selector
        /\ files' # files => pc = "screenshot"]_vars

\* C18 witness: with the animation flag set a selector was stabilized, centred
\* away from the top of the page, waited for, and is about to be captured
C18_Witness ==
  /\ pc = "screenshot"
  /\ opts.animationTrigger
  /\ scrollY > 0
  /\ safeSelector # <<>>

\* the immediate children of the parent element, and the k-th of them in
\* document order
ParentKids == {e \in Elems : ParentElement # 0 /\ ParentOf(e) = ParentElement}
KthKid(k) ==
  CHOOSE e \in ParentKids : Cardinality({f \in ParentKids : f < e}) = k - 1

\* [data-screenshot="screenshot-target-0"]
LocatorTarget0 ==
  <<"[", "d", "a", "t", "a", "-", "s", "c", "r", "e", "e", "n", "s", "h", "o", "t",
    "=", "\"", "s", "c", "r", "e", "e", "n", "s", "h", "o", "t", "-",
    "t", "a", "r", "g", "e", "t", "-", "0", "\"", "]">>

\* C19: with a parent selector that names an element, the child expansion of
\* every pass returns one locator per immediate child, the k-th (from 0) being
\* [data-screenshot="screenshot-target-k"]; when it has run, the k-th child in
\* document order carries the token screenshot-target-k and is the one element
\* its locator matches, and no other element (the parent, a grandchild, an
\* element outside the parent) carries a token.
C19_ChildExpansion ==
  (opts.parentSelector # <<>> /\ ParentElement # 0) =>
    /\ \A i \in DOMAIN passes :
         /\ Len(passes[i].childSelectors) = Cardinality(ParentKids)
         /\ \A k \in DOMAIN passes[i].childSelectors :
              passes[i].childSelectors[k] = Locator(TargetToken(k - 1))
         /\ passes[i].childSelectors # <<>> => passes[i].childSelectors[1] = LocatorTarget0
    /\ pc = "mkdir" =>
         /\ \A k \in 1 .. Cardinality(ParentKids) :
              /\ attrs[KthKid(k)] = TargetToken(k - 1)
              /\ MatchSet(passes[Len(passes)].childSelectors[k], attrs) = {KthKid(k)}
         /\ \A e \in Elems \ ParentKids : attrs[e] = NoAttr

\* C19 witness: the children of #p have just been expanded; the first child
\* carries screenshot-target-0 and its own child carries nothing
C19_Witness ==
  /\ pc = "mkdir"
  /\ opts.parentSelector = SelParent
  /\ Len(passes[Len(passes)].childSelectors) = NKids
  /\ attrs[2] = TargetToken(0)
  /\ attrs[Grandchild] = NoAttr

\* the selectors field of the config file when it could be read and has one
ConfigList == IF opts.config.kind = "ok" THEN opts.config.selectors ELSE <<>>

\* every locator a child expansion of the run has returned
ExpandedLocators == UNION { Range(passes[i].childSelectors) : i \in DOMAIN passes }

\* what holds of a run with a config path whatever the wording of the report:
\* the first pass (every pass of the class variant) starts from the selectors
\* field alone, no selector of the command line is attempted unless the field
\* holds it too, and a run without external failure runs every device pass
ConfigOnly ==
  /\ \A i \in DOMAIN passes :
       (i = 1 \/ impl = "classes") => passes[i].start = ConfigList
  /\ \A i \in DOMAIN attempts :
       attempts[i][1] \in Range(ConfigList) \cup ExpandedLocators
  /\ (pc = "done" /\ browser = "closed" /\ faults = 0) =>
       /\ Len(passes) = Len(Devices)
       /\ ctxClosed = Len(Devices)
       /\ reported = <<>>

\* C20 as stated: with a config path the base list is the selectors field
\* alone; when the file cannot be read or parsed, or has no such field, the
\* base list is empty, a read error is reported, and the device passes run.
C20_ConfigErrorReported ==
  opts.config # NoConfig =>
    /\ ConfigOnly
    /\ (opts.config.kind # "ok" /\ passes # <<>>) => configErrors >= 1

\* C20 as amended: as stated, except that a read error is reported exactly
\* when the file cannot be read or parsed; a file without a selectors field
\* gives the empty base list without any report.
C20_ConfigOnlySource ==
  /\ opts.config # NoConfig =>
       /\ ConfigOnly
       /\ (opts.config.kind = "unreadable" /\ passes # <<>>) => configErrors >= 1
       /\ opts.config.kind # "unreadable" => configErrors = 0
  /\ opts.config = NoConfig =>
       /\ configErrors = 0
       /\ passes # <<>> => passes[1].start = opts.selectors

\* C20 witness: a run given selectors .a .b and an unreadable config file has
\* reported the read error, run both device passes with nothing to capture, and
\* ended without a top-level error
C20_Witness ==
  /\ opts.config.kind = "unreadable"
  /\ opts.selectors = <<SelA, SelB>>
  /\ opts.parentSelector = <<>>
  /\ pc = "done"
  /\ Len(passes) = 2
  /\ attempts = <<>>
  /\ configErrors >= 1
  /\ reported = <<>>

\* C21: at most one browsing context is open at any time, the steps of a device
\* pass run while the context opened for that pass is open, and when the engine
\* has been shut down every context that was opened has had its
\* context.close(), also in a run that aborted on a setup failure.
C21_ContextsClosedExplicitly ==
  /\ ctxOpened - ctxClosed \in {0, 1}
  /\ pc \in {"newPage", "goto", "resolve", "mkdir", "stabilize", "center", "adjust",
              "wait", "screenshot", "close"} =>
       ctxOpened = di /\ ctxClosed = di - 1
  /\ browser = "closed" => ctxClosed = ctxOpened

\* C22: two Saved outcomes of a run that wrote the same file are for the same
\* selector string and the same device.
C22_NoFilenameCollision ==
  \A i, j \in DOMAIN results :
    (results[i].outcome = "Saved" /\ results[j].outcome = "Saved"
       /\ results[i].file = results[j].file)
      => (results[i].selector = results[j].selector /\ results[i].device = results[j].device)

====
